---- MODULE Spec2Model ----
(***************************************************************************)
(* Hostel-management backend: the leave (outing) approval workflow of      *)
(* src/src/controllers/leave.controller.js and the fee settlement of       *)
(* src/src/controllers/payment.controller.js and the fee controller.       *)
(*                                                                         *)
(* Every HTTP request is a call record in `calls`.  A handler is cut into   *)
(* one action per storage operation it awaits: between two awaits the       *)
(* handler runs alone (one JavaScript thread), and at an await any other    *)
(* request may run.  The part of a handler before its first access to       *)
(* mutable data (input validation, the lookup of the caller's immutable     *)
(* Student/Parent profile) is the Start action of the call.                 *)
(***************************************************************************)
EXTENDS Integers, Sequences, FiniteSets, TLC

VARIABLES leaves, calls, fees, payments, receipts, logs

vars == <<leaves, calls, fees, payments, receipts, logs>>

(* ------------------------------ bounds --------------------------------- *)
MaxCalls == 3
MaxLeaves == 2
MaxFees == 2
\* Days a scheduled-out / scheduled-in date is drawn from (1..MaxDay).
MaxDay == 2

(* ----------------------------- identities ------------------------------ *)
\* An absent (undefined) field or input.
NoVal == "undefined"

StudentUsers == {"s1", "s2"}
ParentUsers == {"p1", "p2"}
WardenUsers == {"w1"}

\* Student.findOne({ userId }) : the student profile of a student user.
StudentOfUser(u) ==
  CASE u = "s1" -> "S1"
    [] u = "s2" -> "S2"
    [] OTHER -> NoVal

\* Parent.findOne({ userId }).studentId : the subject a parent is linked to.
ParentStudent(u) ==
  CASE u = "p1" -> "S1"
    [] u = "p2" -> "S2"
    [] OTHER -> NoVal

\* A well-formed identifier (an ObjectId) that no stored document has.
BogusId == 0

\* A path parameter that is not an ObjectId ('not-an-id'): the cast of the
\* query filter fails before any document is read, and the handler's catch
\* answers 500.
MalformedId == -1

(* --------------------------- leave documents --------------------------- *)
LeaveIds == 1..Len(leaves)

\* An absent outDate / inDate of the request body; a given one is a day number.
NoDate == 0

\* A request stored with the schema's default status instead of the one
\* createLeaveRequest passes.
NewLeaveDefaultStatus(student, outDate, inDate) ==
  [ studentId |-> student,
    outDate |-> outDate,
    inDate |-> inDate,
    status |-> "Pending",
    parentApprovalStatus |-> "Pending",
    parentApprovedBy |-> NoVal,
    parentApprovedAt |-> NoVal,
    parentRejectionReason |-> NoVal,
    approvedBy |-> NoVal,
    approvedAt |-> NoVal,
    rejectionReason |-> NoVal,
    statusHistory |-> << [status |-> "PendingParent", updatedBy |-> NoVal,
                          role |-> "student", reason |-> NoVal] >> ]

\* Leave.create(...) of createLeaveRequest.
NewLeave(student, outDate, inDate) ==
  [ studentId |-> student,
    outDate |-> outDate,
    inDate |-> inDate,
    status |-> "PendingParent",
    parentApprovalStatus |-> "Pending",
    parentApprovedBy |-> NoVal,
    parentApprovedAt |-> NoVal,
    parentRejectionReason |-> NoVal,
    approvedBy |-> NoVal,
    approvedAt |-> NoVal,
    rejectionReason |-> NoVal,
    statusHistory |-> << [status |-> "PendingParent", updatedBy |-> NoVal,
                          role |-> "student", reason |-> NoVal] >> ]

\* A parent decision that stores ApprovedByParent for either answer.
ParentNewStatusAlwaysApproved(status) == "ApprovedByParent"

\* newStatus of parentApproveOrReject.
ParentNewStatus(status) ==
  IF status = "Approved" THEN "ApprovedByParent" ELSE "RejectedByParent"

\* A parent update that does not guard on the status.
ParentFilterNoStatus(id, student) ==
  /\ id \in LeaveIds
  /\ leaves[id].studentId = student

\* The filter of the parent's findOneAndUpdate.
ParentFilter(id, student) ==
  /\ id \in LeaveIds
  /\ leaves[id].studentId = student
  /\ leaves[id].status = "PendingParent"

\* The $set / $push of the parent's findOneAndUpdate applied to a document.
ParentUpdate(doc, user, status, reason) ==
  [ doc EXCEPT
      !.status = ParentNewStatus(status),
      !.parentApprovalStatus = status,
      !.parentApprovedBy = user,
      !.parentApprovedAt = "set",
      !.parentRejectionReason = IF status = "Rejected" THEN reason ELSE NoVal,
      !.statusHistory = Append(@,
          [ status |-> ParentNewStatus(status), updatedBy |-> user,
            role |-> "parent",
            reason |-> IF status = "Rejected" THEN reason ELSE NoVal ]) ]

\* A warden update that accepts a request the parent has not decided yet.
WardenFilterPending(id) ==
  /\ id \in LeaveIds
  /\ leaves[id].status \in {"PendingParent", "ApprovedByParent"}

\* The filter of the warden's findOneAndUpdate.
WardenFilter(id) ==
  /\ id \in LeaveIds
  /\ leaves[id].status = "ApprovedByParent"

\* A warden update that stamps approvedAt for a rejection too.
WardenUpdateStampsAlways(doc, user, status, reason) ==
  [ doc EXCEPT
      !.status = status,
      !.approvedBy = user,
      !.approvedAt = "set",
      !.rejectionReason = IF status = "Rejected" THEN reason ELSE NoVal,
      !.statusHistory = Append(@,
          [ status |-> status, updatedBy |-> user, role |-> "warden",
            reason |-> IF status = "Rejected" THEN reason ELSE NoVal ]) ]

\* The $set / $push of the warden's findOneAndUpdate applied to a document.
WardenUpdate(doc, user, status, reason) ==
  [ doc EXCEPT
      !.status = status,
      !.approvedBy = user,
      !.approvedAt = IF status = "Approved" THEN "set" ELSE NoVal,
      !.rejectionReason = IF status = "Rejected" THEN reason ELSE NoVal,
      !.statusHistory = Append(@,
          [ status |-> status, updatedBy |-> user, role |-> "warden",
            reason |-> IF status = "Rejected" THEN reason ELSE NoVal ]) ]

\* The status test of cancelMyLeaveRequest on the loaded document.
Cancellable(status) == status \in {"Pending", "PendingParent"}

\* leave.status = 'Cancelled'; leave.save() : the save writes the modified
\* path (status) of the document with that id, whatever it holds by then.
CancelSave(doc) == [ doc EXCEPT !.status = "Cancelled" ]

(* ------------------------------- calls --------------------------------- *)
CallIds == 1..Len(calls)

NewCall(op, user, id, status, reason) ==
  [ op |-> op, user |-> user, id |-> id, status |-> status, reason |-> reason,
    pc |-> "start", result |-> 0, snap |-> NoVal ]

\* A call answered before it reaches the storage: it keeps the caller and
\* the answer.
Answered(op, user, code) ==
  [ NewCall(op, user, BogusId, NoVal, NoVal) EXCEPT !.pc = "done", !.result = code ]

\* The response is sent: the call keeps what the caller asked and got.
Finish(c, code) ==
  [ calls EXCEPT ![c].pc = "done", ![c].result = code, ![c].reason = NoVal,
                 ![c].snap = NoVal ]

Decisions == {"Approved", "Rejected", "Pending"}
Reasons == {NoVal, "not convenient"}

\* The rejectionReason sent along with a decision: a rejection comes with or
\* without one, an approval with one (which must not be recorded), a
\* malformed decision with none.
ReasonsWith(status) ==
  CASE status = "Rejected" -> Reasons
    [] status = "Approved" -> {"not convenient"}
    [] OTHER -> {NoVal}
Targets == LeaveIds \cup {BogusId, MalformedId}

Init ==
  /\ leaves = << >>
  /\ calls = << >>
  /\ fees = << >>
  /\ payments = << >>
  /\ receipts = 0
  /\ logs = << >>

(* ---------------------- createLeaveRequest ----------------------------- *)
SubmitReasons == {NoVal, "visit"}
SubmitTypes == {NoVal, "Other"}
Dates == {NoDate} \cup (1..MaxDay)

\* The date test of the schema's pre('save') hook, put in the controller's place.
SubmitInvalidAsHook(reason, type, outDate, inDate) ==
  \/ reason = NoVal \/ type = NoVal \/ outDate = NoDate \/ inDate = NoDate
  \/ inDate < outDate

\* The two 400 tests of createLeaveRequest: a required field is missing, or
\* outDateObj >= inDateObj.
SubmitInvalid(reason, type, outDate, inDate) ==
  \/ reason = NoVal \/ type = NoVal \/ outDate = NoDate \/ inDate = NoDate
  \/ outDate >= inDate

\* leaveSchema.pre('save'): the document is refused when inDate < outDate.
PreSaveRefuses(doc) == doc.inDate < doc.outDate

SubmitCall(user, outDate, inDate) ==
  [ op |-> "submit", user |-> user, id |-> BogusId, status |-> NoVal,
    reason |-> NoVal, pc |-> "create", result |-> 0, snap |-> NoVal,
    outDate |-> outDate, inDate |-> inDate ]

\* POST /api/leaves (student): the tests on the body. A call answered 400
\* keeps no dates.
StartSubmit(u, reason, type, outDate, inDate) ==
  /\ Len(calls) < MaxCalls
  /\ Len(leaves) < MaxLeaves
  /\ calls' = Append(calls,
       IF SubmitInvalid(reason, type, outDate, inDate)
         THEN [ SubmitCall(u, NoDate, NoDate) EXCEPT !.pc = "done", !.result = 400 ]
         ELSE SubmitCall(u, outDate, inDate))
  /\ UNCHANGED <<leaves, fees, payments, receipts, logs>>

\* Student.findOne (every student user has a profile) and Leave.create.
SubmitCreate(c) ==
  /\ calls[c].op = "submit" /\ calls[c].pc = "create"
  /\ LET k == calls[c]
         doc == NewLeave(StudentOfUser(k.user), k.outDate, k.inDate)
     IN IF PreSaveRefuses(doc)
          THEN /\ calls' = [ Finish(c, 500) EXCEPT ![c].outDate = NoDate,
                                                    ![c].inDate = NoDate ]
               /\ UNCHANGED leaves
          ELSE /\ leaves' = Append(leaves, doc)
               /\ calls' = [ Finish(c, 201) EXCEPT ![c].id = Len(leaves) + 1,
                                                    ![c].outDate = NoDate,
                                                    ![c].inDate = NoDate ]
  /\ UNCHANGED <<fees, payments, receipts, logs>>

(* ---------------------- parentApproveOrReject -------------------------- *)
\* PUT /api/leaves/:id/parent-approval (parent): the test of the decision,
\* the parent's profile, and the cast of the filter of findOneAndUpdate (for
\* an id that is no ObjectId the query is rejected unsent: catch, 500).
StartParentDecide(u, id, status, reason) ==
  /\ Len(calls) < MaxCalls
  /\ LET call == NewCall("parent", u, id, status, reason) IN
     calls' = Append(calls,
       IF status \notin {"Approved", "Rejected"} THEN Answered("parent", u, 400)
       ELSE IF ParentStudent(u) = NoVal THEN Answered("parent", u, 403)
       ELSE IF id = MalformedId THEN Answered("parent", u, 500)
       ELSE [ call EXCEPT !.pc = "update" ])
  /\ UNCHANGED <<leaves, fees, payments, receipts, logs>>

\* Leave.findOneAndUpdate({_id, studentId, status: 'PendingParent'}, ...).
ParentFindOneAndUpdate(c) ==
  /\ calls[c].op = "parent" /\ calls[c].pc = "update"
  /\ LET k == calls[c] IN
     IF ParentFilter(k.id, ParentStudent(k.user))
       THEN /\ leaves' = [ leaves EXCEPT
                 ![k.id] = ParentUpdate(@, k.user, k.status, k.reason) ]
            /\ calls' = Finish(c, 200)
       ELSE /\ calls' = [ calls EXCEPT ![c].pc = "lookup" ]
            /\ UNCHANGED leaves
  /\ UNCHANGED <<fees, payments, receipts, logs>>

\* if (!updated) { existing = Leave.findById(id) ... } : 404 / 403 / 409.
ParentLookup(c) ==
  /\ calls[c].op = "parent" /\ calls[c].pc = "lookup"
  /\ LET k == calls[c] IN
     calls' = Finish(c,
       IF k.id \notin LeaveIds THEN 404
       ELSE IF leaves[k.id].studentId # ParentStudent(k.user) THEN 403
       ELSE 409)
  /\ UNCHANGED <<leaves, fees, payments, receipts, logs>>

(* ------------------------- updateLeaveStatus --------------------------- *)
\* PUT /api/leaves/:id/status (warden): the test of the decision and the cast
\* of the filter of findOneAndUpdate (catch, 500, for an id that is no
\* ObjectId).
StartWardenDecide(u, id, status, reason) ==
  /\ Len(calls) < MaxCalls
  /\ LET call == NewCall("warden", u, id, status, reason) IN
     calls' = Append(calls,
       IF status \notin {"Approved", "Rejected"} THEN Answered("warden", u, 400)
       ELSE IF id = MalformedId THEN Answered("warden", u, 500)
       ELSE [ call EXCEPT !.pc = "update" ])
  /\ UNCHANGED <<leaves, fees, payments, receipts, logs>>

\* Leave.findOneAndUpdate({_id, status: 'ApprovedByParent'}, ...).
WardenFindOneAndUpdate(c) ==
  /\ calls[c].op = "warden" /\ calls[c].pc = "update"
  /\ LET k == calls[c] IN
     IF WardenFilter(k.id)
       THEN /\ leaves' = [ leaves EXCEPT
                 ![k.id] = WardenUpdate(@, k.user, k.status, k.reason) ]
            /\ calls' = Finish(c, 200)
       ELSE /\ calls' = [ calls EXCEPT ![c].pc = "lookup" ]
            /\ UNCHANGED leaves
  /\ UNCHANGED <<fees, payments, receipts, logs>>

\* if (!updated) { existing = Leave.findById(id) ... } : 404 / 409.
WardenLookup(c) ==
  /\ calls[c].op = "warden" /\ calls[c].pc = "lookup"
  /\ calls' = Finish(c, IF calls[c].id \notin LeaveIds THEN 404 ELSE 409)
  /\ UNCHANGED <<leaves, fees, payments, receipts, logs>>

(* ------------------------ cancelMyLeaveRequest ------------------------- *)
\* PUT /api/leaves/:id/cancel (student): the student's profile and the cast of
\* the id of findById (catch, 500, for an id that is no ObjectId).
StartCancel(u, id) ==
  /\ Len(calls) < MaxCalls
  /\ LET call == NewCall("cancel", u, id, NoVal, NoVal) IN
     calls' = Append(calls,
       IF StudentOfUser(u) = NoVal THEN Answered("cancel", u, 404)
       ELSE IF id = MalformedId THEN Answered("cancel", u, 500)
       ELSE [ call EXCEPT !.pc = "load" ])
  /\ UNCHANGED <<leaves, fees, payments, receipts, logs>>

\* leave = Leave.findById(id); the 404 / 403 / 400 tests on the loaded copy.
CancelLoad(c) ==
  /\ calls[c].op = "cancel" /\ calls[c].pc = "load"
  /\ LET k == calls[c] IN
     calls' =
       IF k.id \notin LeaveIds THEN Finish(c, 404)
       ELSE IF leaves[k.id].studentId # StudentOfUser(k.user) THEN Finish(c, 403)
       ELSE IF ~Cancellable(leaves[k.id].status) THEN Finish(c, 400)
       ELSE [ calls EXCEPT ![c].pc = "save", ![c].snap = leaves[k.id].status ]
  /\ UNCHANGED <<leaves, fees, payments, receipts, logs>>

\* leave.status = 'Cancelled'; await leave.save().
CancelSaveStep(c) ==
  /\ calls[c].op = "cancel" /\ calls[c].pc = "save"
  /\ leaves' = [ leaves EXCEPT ![calls[c].id] = CancelSave(@) ]
  /\ calls' = Finish(c, 200)
  /\ UNCHANGED <<fees, payments, receipts, logs>>

(* ---------------------------- fee documents ---------------------------- *)
\* A fee without receiptNumber (the sparse unique index skips it).
NoReceipt == << >>

\* An unset Date field; a set one holds the id of the call whose new Date() it is.
NoTime == 0

\* The place of a fee that Fee.findByIdAndDelete removed: its id is never
\* given to another document, and no query finds it.
DeletedFee ==
  [ studentId |-> NoVal, amount |-> 0, status |-> "Deleted",
    receiptNumber |-> NoReceipt, paidAt |-> NoTime,
    paidBy |-> NoVal, paidByUserId |-> NoVal ]

\* The ids ever given to a fee, and those of the fees stored now.
FeeSlots == 1..Len(fees)
FeeIds == { i \in FeeSlots : fees[i] # DeletedFee }

\* generateReceiptNumber(): 'RCPT-<time>-<random>', a value not produced before.
GeneratedReceipt(n) == <<"RCPT", n>>

\* Receipt numbers a warden types in.
TypedReceipts == { <<"W", 1>> }

\* An amount the request body does not carry.
NoAmount == -1

\* Fee.create({ studentId, amount, term, status }) with the schema's default.
NewFee(student, amount, status) ==
  [ studentId |-> student,
    amount |-> amount,
    status |-> IF status = NoVal THEN "Pending" ELSE status,
    receiptNumber |-> NoReceipt,
    paidAt |-> NoTime,
    paidBy |-> NoVal,
    paidByUserId |-> NoVal ]

\* The document of updateFee after its assignments, from the loaded copy.
UpdateFeeWant(snap, amount, status, receipt, now) ==
  [ snap EXCEPT
      !.amount = IF amount # NoAmount THEN amount ELSE @,
      !.status = IF status # NoVal THEN status ELSE @,
      !.paidAt = IF status = "Paid" /\ @ = NoTime THEN now ELSE @,
      !.receiptNumber = IF receipt # NoReceipt THEN receipt ELSE @ ]

\* The document of markFeePaid after its assignments, from the loaded copy.
MarkFeePaidWant(snap, user, receipt, now) ==
  [ snap EXCEPT
      !.status = "Paid",
      !.paidAt = now,
      !.paidBy = "warden",
      !.paidByUserId = user,
      !.receiptNumber = IF receipt # NoReceipt THEN receipt ELSE @ ]

\* paidBy of payMyFees.
PayerRole(user) == IF user \in ParentUsers THEN "parent" ELSE "student"

\* A settlement that stamps every fee with the transaction's receipt.
SettleWantOverwrite(snap, user, receipt, now) ==
  [ snap EXCEPT
      !.status = "Paid",
      !.paidAt = now,
      !.receiptNumber = receipt,
      !.paidBy = PayerRole(user),
      !.paidByUserId = user ]

\* One fee of payMyFees after the assignments of the map callback.
SettleWant(snap, user, receipt, now) ==
  [ snap EXCEPT
      !.status = "Paid",
      !.paidAt = now,
      !.receiptNumber = IF @ # NoReceipt THEN @ ELSE receipt,
      !.paidBy = PayerRole(user),
      !.paidByUserId = user ]

\* doc.save(): the stored document with the paths set that the handler
\* changed on its loaded copy (a path assigned its loaded value is not sent).
SaveModified(cur, snap, want) ==
  [ f \in DOMAIN cur |-> IF want[f] # snap[f] THEN want[f] ELSE cur[f] ]

\* A storage without the unique index on receiptNumber.
ReceiptIndexOff(id, snap, want) == TRUE

\* The unique sparse index on receiptNumber: a save that sets a receipt
\* number another fee holds is rejected (duplicate key).
ReceiptIndexAllows(id, snap, want) ==
  \/ want.receiptNumber = snap.receiptNumber
  \/ want.receiptNumber = NoReceipt
  \/ \A j \in FeeIds \ {id} : fees[j].receiptNumber # want.receiptNumber

\* doc.save() updates the document with the loaded _id: when none is stored
\* any more the save is rejected (DocumentNotFoundError).
DocumentFound(id) == id \in FeeIds

\* Whether doc.save() of fee id is accepted.
SaveAccepted(id, snap, want) ==
  DocumentFound(id) /\ ReceiptIndexAllows(id, snap, want)

\* A storage that, when it rejects a save, also reverts the fees already
\* stamped with the same receipt number (a transaction rolling back).
FeesAfterSaveRollback(id, snap, want) ==
  IF SaveAccepted(id, snap, want)
    THEN [ fees EXCEPT ![id] = SaveModified(@, snap, want) ]
    ELSE [ j \in FeeSlots |->
           IF j \in FeeIds /\ fees[j].receiptNumber = want.receiptNumber
             THEN [ fees[j] EXCEPT !.status = "Pending", !.receiptNumber = NoReceipt ]
             ELSE fees[j] ]

\* The fees after doc.save() of fee id (unchanged when the save is rejected).
FeesAfterSave(id, snap, want) ==
  IF SaveAccepted(id, snap, want)
    THEN [ fees EXCEPT ![id] = SaveModified(@, snap, want) ]
    ELSE fees

\* A query for the subject's fees that leaves out the status filter.
FeesOfAnyStatus(student) == { i \in FeeIds : fees[i].studentId = student }

\* Fee.find({ studentId, status: 'Pending' }) : the ids found.
PendingFeesOf(student) ==
  { i \in FeeIds : fees[i].studentId = student /\ fees[i].status = "Pending" }

RECURSIVE SumAmounts(_, _)
\* reduce((sum, fee) => sum + (fee.amount || 0), 0) over the loaded copies.
SumAmounts(docs, ids) ==
  IF ids = {} THEN 0
  ELSE LET i == CHOOSE x \in ids : TRUE
       IN docs[i].amount + SumAmounts(docs, ids \ {i})

\* A due amount that takes the oldest loaded fee alone.
TotalDueOldest(docs) ==
  IF DOMAIN docs = {} THEN 0
  ELSE docs[CHOOSE i \in DOMAIN docs : \A j \in DOMAIN docs : i <= j].amount

\* totalDue of payMyFees.
TotalDue(docs) == SumAmounts(docs, DOMAIN docs)

\* The subject payMyFees settles for: the caller's own profile, or the
\* student a parent is linked to.
SubjectOf(user) ==
  IF user \in ParentUsers THEN ParentStudent(user) ELSE StudentOfUser(user)

Methods == {"UPI", "Wallet"}

\* req.body.transactionId: absent (or empty, which || skips as well), a typed
\* one, and the same typed with blanks around it.
NoTransactionId == << >>
TypedTransactionIds == { <<"TX", 1>>, <<" TX ", 1>> }

\* trim: true of paymentSchema.transactionId.
Trim(t) == IF t[1] = " TX " THEN <<"TX", t[2]>> ELSE t

\* transactionId || transactionReceipt, as Payment.create stores it.
StoredTransactionId(transactionId, receipt) ==
  Trim(IF transactionId # NoTransactionId THEN transactionId ELSE receipt)

\* The transactionId sent along with a method: a payment by a method the
\* schema accepts comes with or without one (typed with blanks around it),
\* any other without.
TransactionIdsWith(method) ==
  IF method \in {"UPI", "Card", "Netbanking", "Cash"}
    THEN {NoTransactionId, <<" TX ", 1>>}
    ELSE {NoTransactionId}

\* A settlement that has stored no Payment.
NoPayment == 0

\* A payment schema that accepts a wallet payment as well.
PaymentMethodsWithWallet == {"UPI", "Card", "Netbanking", "Cash", "Wallet"}

\* The enum of paymentSchema.method: Payment.create rejects any other value.
PaymentMethods == {"UPI", "Card", "Netbanking", "Cash"}

FeeAmounts == {0, 300, 500}
SettleAmounts == {0, 300, 800}
FeeStatuses == {NoVal, "Pending", "Paid"}

\* req.body.amount as JavaScript sees it: its typeof, whether it is NaN, and
\* the number it compares as (a numeric string compares as its number).
Num(n) == [ type |-> "number", nan |-> FALSE, value |-> n ]
NaNBody == [ type |-> "number", nan |-> TRUE, value |-> 0 ]
Str(n) == [ type |-> "string", nan |-> FALSE, value |-> n ]
NoBody == [ type |-> "undefined", nan |-> TRUE, value |-> 0 ]
SettleBodies ==
  { Num(0), Num(300), Num(0 - 300), NaNBody, Str(300), NoBody }

\* An amount test that leaves out the typeof and NaN tests.
ValidAmountCompareOnly(a) == IF a.nan THEN FALSE ELSE ~(a.value <= 0)

\* The negation of the 400 test of payMyFees:
\* typeof amount !== 'number' || Number.isNaN(amount) || amount <= 0
\* (a comparison with NaN is false).
ValidAmount(a) ==
  ~( \/ a.type # "number"
     \/ a.nan
     \/ (IF a.nan THEN FALSE ELSE a.value <= 0) )

\* The amount kept with the call: the number given, if a number was given.
AmountValue(a) ==
  IF a.type = "number" /\ ~a.nan THEN a.value ELSE NoAmount
Subjects == {"S1", "S2"}
\* req.params.id of the fee routes: a stored fee, a deleted one, an ObjectId
\* no fee ever had, or a value that is no ObjectId.
FeeTargets == FeeSlots \cup {BogusId, MalformedId}
Payers == StudentUsers \cup ParentUsers

FeeCall(op, user, id) ==
  [ op |-> op, user |-> user, id |-> id, pc |-> "start", result |-> 0 ]

\* A fee call answered by its first test: it keeps the caller and the answer.
FeeAnswered(op, user, code) ==
  [ FeeCall(op, user, BogusId) EXCEPT !.pc = "done", !.result = code ]

(* ------------------------------ createFee ------------------------------ *)
\* POST /api/fees (warden): one storage write, Fee.create.
CreateFee(u, student, amount, status) ==
  /\ Len(calls) < MaxCalls
  /\ Len(fees) < MaxFees
  /\ IF amount = 0
       THEN /\ calls' = Append(calls, FeeAnswered("createFee", u, 400))
            /\ UNCHANGED fees
       ELSE /\ fees' = Append(fees, NewFee(student, amount, status))
            /\ calls' = Append(calls, [ FeeCall("createFee", u, Len(fees) + 1)
                                        EXCEPT !.pc = "done", !.result = 201 ])
  /\ UNCHANGED <<leaves, payments, receipts, logs>>

(* ------------------------------ updateFee ------------------------------ *)
\* PUT /api/fees/:id (warden): fee = Fee.findById(id) (rejected for an id that
\* is no ObjectId: catch, 500), the 404 test, the assignments.
UpdateFeeLoad(u, id, amount, status, receipt) ==
  /\ Len(calls) < MaxCalls
  /\ LET c == Len(calls) + 1
         call == FeeCall("updateFee", u, id)
     IN calls' = Append(calls,
          IF id = MalformedId THEN FeeAnswered("updateFee", u, 500)
          ELSE IF id \notin FeeIds THEN FeeAnswered("updateFee", u, 404)
            ELSE [ op |-> "updateFee", user |-> u, id |-> id, pc |-> "save",
                   result |-> 0, snap |-> fees[id],
                   want |-> UpdateFeeWant(fees[id], amount, status, receipt, c) ])
  /\ UNCHANGED <<leaves, fees, payments, receipts, logs>>

\* await fee.save() of updateFee and of markFeePaid: 200, or 500 when the save
\* is rejected (the fee was deleted since it was loaded, or the receipt
\* number is another fee's).
FeeSave(c) ==
  /\ calls[c].op \in {"updateFee", "markFeePaid"} /\ calls[c].pc = "save"
  /\ LET k == calls[c] IN
     /\ fees' = FeesAfterSave(k.id, k.snap, k.want)
     /\ calls' = [ calls EXCEPT ![c] =
          [ op |-> k.op, user |-> k.user, id |-> k.id, pc |-> "done",
            result |-> IF SaveAccepted(k.id, k.snap, k.want)
                         THEN 200 ELSE 500 ] ]
  /\ UNCHANGED <<leaves, payments, receipts, logs>>

(* ----------------------------- markFeePaid ----------------------------- *)
\* PUT /api/fees/:id/mark-paid (warden): fee = Fee.findById(id) (rejected for
\* an id that is no ObjectId: catch, 500), the 404 test, the assignments.
MarkFeePaidLoad(u, id, receipt) ==
  /\ Len(calls) < MaxCalls
  /\ LET c == Len(calls) + 1
         call == FeeCall("markFeePaid", u, id)
     IN calls' = Append(calls,
          IF id = MalformedId THEN FeeAnswered("markFeePaid", u, 500)
          ELSE IF id \notin FeeIds THEN FeeAnswered("markFeePaid", u, 404)
            ELSE [ op |-> "markFeePaid", user |-> u, id |-> id, pc |-> "save",
                   result |-> 0, snap |-> fees[id],
                   want |-> MarkFeePaidWant(fees[id], u, receipt, c) ])
  /\ UNCHANGED <<leaves, fees, payments, receipts, logs>>

(* ------------------------------ deleteFee ------------------------------ *)
\* DELETE /api/fees/:id (warden): fee = Fee.findById(id) (rejected for an id
\* that is no ObjectId: catch, 500) and the 404 test.
DeleteFeeFind(u, id) ==
  /\ Len(calls) < MaxCalls
  /\ LET call == FeeCall("deleteFee", u, id)
     IN calls' = Append(calls,
          IF id = MalformedId THEN FeeAnswered("deleteFee", u, 500)
          ELSE IF id \notin FeeIds THEN FeeAnswered("deleteFee", u, 404)
          ELSE [ call EXCEPT !.pc = "delete" ])
  /\ UNCHANGED <<leaves, fees, payments, receipts, logs>>

\* await Fee.findByIdAndDelete(id) and the 200 answer: the fee is removed if
\* it is still stored; the result of the call is not looked at.
DeleteFeeRemove(c) ==
  /\ calls[c].op = "deleteFee" /\ calls[c].pc = "delete"
  /\ fees' = [ fees EXCEPT ![calls[c].id] = DeletedFee ]
  /\ calls' = [ calls EXCEPT ![c].pc = "done", ![c].result = 200 ]
  /\ UNCHANGED <<leaves, payments, receipts, logs>>

(* ------------------------------ payMyFees ------------------------------ *)
\* The answered call of payMyFees: what was asked, the fees it loaded as
\* Pending (batch), the receipt number it returned and the place of the
\* Payment it stored.
SettleDone(k, code, batch, receipt) ==
  [ op |-> "settle", user |-> k.user, id |-> BogusId, pc |-> "done",
    result |-> code, amount |-> k.amount, method |-> k.method,
    batch |-> batch, receipt |-> receipt, payment |-> NoPayment ]

\* POST /api/payments/pay (student or parent): the amount test, then
\* Fee.find of the Pending fees, the empty and mismatch answers, the receipt
\* number and the assignments to every loaded fee.  A call answered here
\* keeps no method: the method is first read by Payment.create.
SettleFind(u, body, method, transactionId) ==
  /\ Len(calls) < MaxCalls
  /\ LET c == Len(calls) + 1
         amount == AmountValue(body)
         k == [ user |-> u, amount |-> amount, method |-> NoVal ]
         ids == PendingFeesOf(SubjectOf(u))
         docs == [ i \in ids |-> fees[i] ]
         receipt == GeneratedReceipt(receipts + 1)
     IN IF ~ValidAmount(body)
          THEN /\ calls' = Append(calls, SettleDone(k, 400, {}, NoReceipt))
               /\ UNCHANGED receipts
        ELSE IF SubjectOf(u) = NoVal
          THEN /\ calls' = Append(calls, SettleDone(k, 404, {}, NoReceipt))
               /\ UNCHANGED receipts
        ELSE IF ids = {}
          THEN /\ calls' = Append(calls, SettleDone(k, 200, {}, NoReceipt))
               /\ UNCHANGED receipts
        ELSE IF amount # TotalDue(docs)
          THEN /\ calls' = Append(calls, SettleDone(k, 400, ids, NoReceipt))
               /\ UNCHANGED receipts
        ELSE /\ receipts' = receipts + 1
             /\ calls' = Append(calls,
                  [ op |-> "settle", user |-> u, id |-> BogusId, pc |-> "saving",
                    result |-> 0, amount |-> amount, method |-> method,
                    batch |-> ids, receipt |-> receipt,
                    transactionId |-> transactionId,
                    snap |-> docs, todo |-> ids,
                    want |-> [ i \in ids |-> SettleWant(docs[i], u, receipt, c) ] ])
  /\ UNCHANGED <<leaves, fees, payments, logs>>

\* One fee.save() of the Promise.all: the saves were all issued, the storage
\* serves them in any order; the first rejected one (the receipt number is
\* another fee's, or the fee was deleted since it was read) makes the handler
\* answer 500 while the others still run.
SettleSaveOne(c, i) ==
  /\ calls[c].op = "settle" /\ calls[c].pc = "saving"
  /\ i \in calls[c].todo
  /\ LET k == calls[c]
         ok == SaveAccepted(i, k.snap[i], k.want[i])
         failed == k.result = 500 \/ ~ok
         left == k.todo \ {i}
     IN /\ fees' = FeesAfterSave(i, k.snap[i], k.want[i])
        /\ calls' = [ calls EXCEPT ![c] =
             IF left = {} /\ failed
               THEN SettleDone(k, 500, k.batch, NoReceipt)
               ELSE [ k EXCEPT !.todo = left,
                               !.result = IF failed THEN 500 ELSE 0,
                               !.pc = IF left = {} THEN "payment" ELSE "saving" ] ]
  /\ UNCHANGED <<leaves, payments, receipts, logs>>

\* Payment.create({...}) inside its own try/catch, then the 200 answer with
\* the generated receipt number.
SettlePayment(c) ==
  /\ calls[c].op = "settle" /\ calls[c].pc = "payment"
  /\ LET k == calls[c]
         created == k.method \in PaymentMethods
     IN
     /\ payments' =
          IF created
            THEN Append(payments,
                   [ studentId |-> SubjectOf(k.user),
                     payerType |-> PayerRole(k.user),
                     payerUserId |-> k.user,
                     amount |-> k.amount,
                     method |-> k.method,
                     status |-> "Completed",
                     transactionId |->
                       StoredTransactionId(k.transactionId, k.receipt) ])
            ELSE payments
     /\ calls' = [ calls EXCEPT ![c] =
          [ SettleDone(k, 200, k.batch, k.receipt) EXCEPT
              !.payment = IF created THEN Len(payments) + 1 ELSE NoPayment ] ]
  /\ UNCHANGED <<leaves, fees, receipts, logs>>

(* ------------------------- entry / exit logs --------------------------- *)
LogIds == 1..Len(logs)

\* Every authenticated user reaches markEntry / markExit: the routes carry
\* `protect` and no `authorize`.  One caller of each role is drawn.
EntryCallers == {"s1", "p2", "w1"}

\* req.body.studentId: absent, an ObjectId, a roll number, an unknown value.
StudentIdInputs == {NoVal, "S1", "R2", "X9"}

EntryMethods == {"Manual", "QR"}

\* Student.findById(studentId) for an ObjectId, else
\* Student.findOne({ rollNumber }).
FindStudent(studentId) ==
  CASE studentId \in {"S1", "R1"} -> "S1"
    [] studentId \in {"S2", "R2"} -> "S2"
    [] OTHER -> NoVal

\* targetStudentId of markEntry / markExit: a caller with role student gets
\* the own profile, every other caller the student named in the body.
TargetStudentId(user, studentId) ==
  IF user \in StudentUsers THEN StudentOfUser(user) ELSE FindStudent(studentId)

\* The answer of the target lookup when it ends the request (0: it goes on).
TargetError(user, studentId) ==
  IF user \in StudentUsers
    THEN IF StudentOfUser(user) = NoVal THEN 404 ELSE 0
  ELSE IF studentId = NoVal THEN 400
  ELSE IF FindStudent(studentId) = NoVal THEN 404
  ELSE 0

\* The log of the student with the least createdAt, where the one with the
\* greatest is asked for.
FirstLog(student) ==
  LET own == { i \in LogIds : logs[i].studentId = student }
  IN IF own = {} THEN BogusId
     ELSE CHOOSE i \in own : \A j \in own : logs[i].createdAt <= logs[j].createdAt

\* EntryExit.findOne({ studentId }).sort({ createdAt: -1 }) : the log of the
\* student with the greatest createdAt (BogusId: there is none).  The logs
\* are stored in the order their inserts were served, which need not be the
\* order in which they were created.
LastLog(student) ==
  LET own == { i \in LogIds : logs[i].studentId = student }
  IN IF own = {} THEN BogusId
     ELSE CHOOSE i \in own : \A j \in own : logs[j].createdAt <= logs[i].createdAt

\* EntryExit.create({ studentId, inTime: new Date(), status: 'IN', method }):
\* the schema's timestamps option stamps createdAt when create() is called,
\* which is when the handler resumes from its read of the last log.
NewLog(student, method, now) ==
  [ studentId |-> student, inTime |-> now, outTime |-> NoTime,
    status |-> "IN", method |-> method, createdAt |-> now ]

\* The loaded log of markExit after its assignments.
ExitWant(snap, method, now) ==
  [ snap EXCEPT !.outTime = now, !.status = "OUT", !.method = method ]

EntryCall(op, user, target, method) ==
  [ op |-> op, user |-> user, id |-> BogusId, pc |-> "start", result |-> 0,
    target |-> target, method |-> method, error |-> "none", snap |-> NoVal ]

(* ------------------------------ markEntry ------------------------------ *)
\* POST /api/entry-exit/entry: the target lookup and the read of the last log.
EntryFind(u, studentId, method) ==
  /\ Len(calls) < MaxCalls
  /\ LET target == TargetStudentId(u, studentId)
         call == EntryCall("entry", u, target, method)
         last == LastLog(target)
     IN calls' = Append(calls,
          IF TargetError(u, studentId) # 0
            THEN [ call EXCEPT !.pc = "done", !.result = TargetError(u, studentId),
                               !.error = "target", !.method = NoVal ]
          ELSE IF last # BogusId /\ logs[last].status = "IN"
            THEN [ call EXCEPT !.pc = "done", !.result = 400, !.id = last,
                               !.error = "alreadyIN" ]
          ELSE [ call EXCEPT !.pc = "create" ])
  /\ UNCHANGED <<leaves, fees, payments, receipts, logs>>

\* EntryExit.create(...) and the 201 answer.
EntryCreate(c) ==
  /\ calls[c].op = "entry" /\ calls[c].pc = "create"
  /\ logs' = Append(logs, NewLog(calls[c].target, calls[c].method, c))
  /\ calls' = [ calls EXCEPT ![c].pc = "done", ![c].result = 201,
                             ![c].id = Len(logs) + 1 ]
  /\ UNCHANGED <<leaves, fees, payments, receipts>>

(* ------------------------------- markExit ------------------------------ *)
\* POST /api/entry-exit/exit: the target lookup, the read of the last log
\* and the assignments to the loaded copy.
ExitFind(u, studentId, method) ==
  /\ Len(calls) < MaxCalls
  /\ LET target == TargetStudentId(u, studentId)
         call == EntryCall("exit", u, target, method)
         last == LastLog(target)
     IN calls' = Append(calls,
          IF TargetError(u, studentId) # 0
            THEN [ call EXCEPT !.pc = "done", !.result = TargetError(u, studentId),
                               !.error = "target", !.method = NoVal ]
          ELSE IF last = BogusId \/ logs[last].status = "OUT"
            THEN [ call EXCEPT !.pc = "done", !.result = 400, !.id = last,
                               !.error = "notIN" ]
          ELSE [ call EXCEPT !.pc = "save", !.id = last, !.snap = logs[last] ])
  /\ UNCHANGED <<leaves, fees, payments, receipts, logs>>

\* await lastLog.save() and the 200 answer: the save sets the paths the
\* handler changed on its loaded copy (outTime, status, and method when it
\* differs from the loaded one).
ExitSave(c) ==
  /\ calls[c].op = "exit" /\ calls[c].pc = "save"
  /\ LET k == calls[c] IN
     logs' = [ logs EXCEPT
       ![k.id] = SaveModified(@, k.snap, ExitWant(k.snap, k.method, c)) ]
  /\ calls' = [ calls EXCEPT ![c].pc = "done", ![c].result = 200,
                             ![c].snap = NoVal ]
  /\ UNCHANGED <<leaves, fees, payments, receipts>>

(* ------------------------- leave workflow claims ----------------------- *)
History(id) == leaves[id].statusHistory

EntriesOf(id, role) == { i \in DOMAIN History(id) : History(id)[i].role = role }

\* The ParentDecide calls on request id made by a parent linked to its subject.
LinkedParentCalls(id) ==
  { c \in CallIds : /\ calls[c].op = "parent"
                    /\ calls[c].id = id
                    /\ calls[c].status \in {"Approved", "Rejected"}
                    /\ ParentStudent(calls[c].user) = leaves[id].studentId }

CancelWritten(id) ==
  \E c \in CallIds : calls[c].op = "cancel" /\ calls[c].id = id /\ calls[c].result = 200

TerminalStatuses == {"Approved", "Rejected", "RejectedByParent", "Cancelled"}

\* C1: of the concurrent ParentDecide calls of linked parents on one request,
\* at most one succeeds and every other one ends with Conflict (409); the
\* history holds one parent entry, that of the winner, and the status is the
\* winner's ApprovedByParent / RejectedByParent (until the warden acts); and
\* unless a Cancel has written the request, a finished call means some call
\* has won, so the request is never left PendingParent.
C1_OneParentDecisionWins ==
  \A id \in LeaveIds :
    LET done == { c \in LinkedParentCalls(id) : calls[c].pc = "done" }
        won == { c \in done : calls[c].result = 200 }
    IN /\ Cardinality(won) <= 1
       /\ \A c \in done \ won : calls[c].result = 409
       /\ Cardinality(EntriesOf(id, "parent")) = Cardinality(won)
       /\ \A c \in won :
            /\ leaves[id].status # "PendingParent"
            /\ \A i \in EntriesOf(id, "parent") :
                 /\ History(id)[i].status = ParentNewStatus(calls[c].status)
                 /\ History(id)[i].updatedBy = calls[c].user
            /\ (EntriesOf(id, "warden") = {} /\ ~CancelWritten(id))
                 => leaves[id].status = ParentNewStatus(calls[c].status)
       /\ (done # {} /\ ~CancelWritten(id)) => Cardinality(won) = 1

\* Two finished ParentDecide calls with opposite decisions on one request:
\* one has won, the other got Conflict.
C1_Witness ==
  \E id \in LeaveIds : \E c, d \in LinkedParentCalls(id) :
    /\ calls[c].result = 200 /\ calls[d].result = 409
    /\ calls[c].status = "Rejected" /\ calls[d].status = "Approved"
    /\ leaves[id].status = "RejectedByParent"

\* C2: the status becomes Cancelled only from a status in {Pending,
\* PendingParent}: a parent or warden decision is never overwritten by Cancelled.
C2_CancelOnlyWhilePending ==
  [][ \A id \in LeaveIds :
        (leaves'[id].status = "Cancelled" /\ leaves[id].status # "Cancelled")
          => Cancellable(leaves[id].status) ]_vars

\* C3: once the status is Approved, Rejected, RejectedByParent or Cancelled it
\* never changes again.
C3_TerminalStatusesStay ==
  [][ \A id \in LeaveIds :
        leaves[id].status \in TerminalStatuses
          => leaves'[id].status = leaves[id].status ]_vars

\* C4: every change of a request's status appends exactly one history entry
\* carrying the new status, and the entries already there stay as they are;
\* a step that does not change the status leaves the history unchanged.
C4_HistoryGrowsByOnePerTransition ==
  [][ \A id \in LeaveIds :
        LET h == leaves[id].statusHistory
            g == leaves'[id].statusHistory
        IN IF leaves'[id].status # leaves[id].status
             THEN /\ Len(g) = Len(h) + 1
                  /\ SubSeq(g, 1, Len(h)) = h
                  /\ g[Len(g)].status = leaves'[id].status
             ELSE g = h ]_vars

\* The call that arrives in this step is answered in this step.
AnsweredOnArrival ==
  /\ Len(calls') = Len(calls) + 1
  /\ calls'[Len(calls')].pc = "done"

\* C5: a WardenDecide (with a well-formed decision) for a request that is
\* absent or in a status other than ApprovedByParent changes no request, and
\* it is answered NotFound (404) when no request has the id it names and
\* Conflict (409) otherwise.
C5_WardenDecideNeedsParentApproval ==
  [][ /\ \A u \in WardenUsers, id \in Targets, r \in Reasons,
           s \in {"Approved", "Rejected"} :
           (StartWardenDecide(u, id, s, r) /\ AnsweredOnArrival) =>
             /\ leaves' = leaves
             /\ id \notin LeaveIds => calls'[Len(calls')].result = 404
      /\ \A c \in CallIds :
        (calls[c].op = "warden" /\ calls[c].pc # "done") =>
          /\ ( /\ calls[c].pc = "update"
               /\ calls'[c].pc # "update"
               /\ (calls[c].id \notin LeaveIds
                     \/ leaves[calls[c].id].status # "ApprovedByParent") )
               => (leaves' = leaves /\ calls'[c].pc = "lookup")
          /\ (calls[c].pc = "lookup" /\ calls'[c].pc = "done")
               => /\ leaves' = leaves
                  /\ calls'[c].result =
                       IF calls[c].id \in LeaveIds THEN 409 ELSE 404 ]_vars

\* C6: a request that is Approved or Rejected has a parent entry
\* ApprovedByParent in its history before the warden's entry, and a status
\* becomes Approved or Rejected only from ApprovedByParent.
C6_WardenOnlyAfterParentApproval ==
  /\ [](\A id \in LeaveIds :
          leaves[id].status \in {"Approved", "Rejected"} =>
            \E i, j \in DOMAIN History(id) :
              /\ i < j
              /\ History(id)[i].role = "parent"
              /\ History(id)[i].status = "ApprovedByParent"
              /\ History(id)[j].role = "warden"
              /\ History(id)[j].status = leaves[id].status)
  /\ [][ \A id \in LeaveIds :
           ( /\ leaves'[id].status \in {"Approved", "Rejected"}
             /\ leaves'[id].status # leaves[id].status )
             => leaves[id].status = "ApprovedByParent" ]_vars

\* A request approved by the parent and then by the warden.
C6_Witness ==
  \E id \in LeaveIds :
    /\ leaves[id].status = "Approved"
    /\ Len(History(id)) = 3
    /\ History(id)[2].status = "ApprovedByParent"
    /\ History(id)[3].role = "warden"

(* --------------------------- settlement claims ------------------------- *)
\* The subject's fees that are Pending in the stored collection.
StoredPending(student) ==
  { i \in FeeIds : fees[i].studentId = student /\ fees[i].status = "Pending" }

\* The step in which a Settle call arrives and reads the Pending fees.
SettleArrives == Len(calls') = Len(calls) + 1 /\ calls'[Len(calls')].op = "settle"

\* An earlier Settle for the subject was answered 200 after paying fees.
SettledBefore(student) ==
  \E c \in CallIds :
    /\ calls[c].op = "settle" /\ calls[c].pc = "done" /\ calls[c].result = 200
    /\ SubjectOf(calls[c].user) = student
    /\ calls[c].batch # {}

\* C7: a Settle whose amount matched the sum of two or more Pending fees is
\* answered 200, every fee of the batch is Paid and carries the receipt
\* number the call generated, and it has stored a Payment of that amount.
C7_SettleMarksWholeBatchPaid ==
  \A c \in CallIds :
    ( /\ calls[c].op = "settle" /\ calls[c].pc = "done"
      /\ Cardinality(calls[c].batch) >= 2
      /\ calls[c].result # 400 )
    => /\ calls[c].result = 200
       /\ \A i \in calls[c].batch :
            /\ fees[i].status = "Paid"
            /\ fees[i].receiptNumber = calls[c].receipt
       /\ calls[c].payment \in 1..Len(payments)
       /\ payments[calls[c].payment].amount = calls[c].amount

\* C8: no two fees hold the same receipt number.
C8_ReceiptNumbersUnique ==
  \A i, j \in FeeIds :
    (i # j /\ fees[i].receiptNumber # NoReceipt)
      => fees[i].receiptNumber # fees[j].receiptNumber

\* A save that would have given a second fee the receipt number of the first
\* was rejected: the Settle is answered 500, one fee of its batch holds the
\* receipt number and the other holds none.
C8_Witness ==
  \E c \in CallIds : \E i, j \in FeeIds :
    /\ calls[c].op = "settle" /\ calls[c].pc = "done" /\ calls[c].result = 500
    /\ {i, j} \subseteq calls[c].batch
    /\ fees[i].receiptNumber # NoReceipt
    /\ fees[j].receiptNumber = NoReceipt

\* C9 as claimed: a Settle with a positive amount other than the sum of the
\* subject's Pending fees is answered AmountMismatch (400) and changes no fee
\* and no payment.
C9_MismatchAlwaysRejected ==
  [][ SettleArrives =>
        LET k == calls'[Len(calls')]
            due == SumAmounts(fees, StoredPending(SubjectOf(k.user)))
        IN (k.amount > 0 /\ k.amount # due)
             => /\ k.pc = "done" /\ k.result = 400
                /\ fees' = fees /\ payments' = payments ]_vars

\* C9 amended: a Settle with a positive amount other than the sum of the
\* subject's Pending fees changes no fee and no payment; it is answered
\* AmountMismatch (400) when the subject has a Pending fee and success (200)
\* with an empty list when it has none.
C9_MismatchRejectedWhenFeesPending ==
  [][ SettleArrives =>
        LET k == calls'[Len(calls')]
            pending == StoredPending(SubjectOf(k.user))
            due == SumAmounts(fees, pending)
        IN (k.amount > 0 /\ k.amount # due)
             => /\ k.pc = "done"
                /\ k.result = IF pending # {} THEN 400 ELSE 200
                /\ k.batch = pending
                /\ fees' = fees /\ payments' = payments ]_vars

\* A Settle answered 400 for a positive amount while the fees it read are
\* still Pending and no payment exists.
C9_Witness ==
  \E c \in CallIds :
    /\ calls[c].op = "settle" /\ calls[c].result = 400 /\ calls[c].amount > 0
    /\ Cardinality(calls[c].batch) = 2
    /\ \A i \in calls[c].batch : fees[i].status = "Pending"
    /\ payments = << >>

\* C10 as claimed: a Settle that arrives after a successful settlement, when
\* the subject has no Pending fee, is answered 200 with an empty list and
\* changes no fee and no payment, whatever its amount (0 included).
C10_SettleAgainSucceeds ==
  [][ SettleArrives =>
        LET k == calls'[Len(calls')]
            subject == SubjectOf(k.user)
        IN (SettledBefore(subject) /\ StoredPending(subject) = {})
             => /\ k.pc = "done" /\ k.result = 200 /\ k.batch = {}
                /\ fees' = fees /\ payments' = payments ]_vars

\* C10 amended: such a Settle changes no fee and no payment; with a positive
\* amount it is answered 200 with an empty list, with amount 0 it is answered
\* ValidationError (400).
C10_SettleAgainChangesNothing ==
  [][ SettleArrives =>
        LET k == calls'[Len(calls')]
            subject == SubjectOf(k.user)
        IN (SettledBefore(subject) /\ StoredPending(subject) = {})
             => /\ k.pc = "done" /\ k.batch = {}
                /\ k.result = IF k.amount > 0 THEN 200 ELSE 400
                /\ fees' = fees /\ payments' = payments ]_vars

\* After a settlement with its payment, a second Settle with a positive
\* amount was answered 200 with an empty list; the one payment is still alone.
C10_Witness ==
  \E c, d \in CallIds :
    /\ c < d
    /\ calls[c].op = "settle" /\ calls[c].result = 200 /\ calls[c].batch # {}
    /\ calls[d].op = "settle" /\ calls[d].result = 200 /\ calls[d].batch = {}
    /\ calls[d].pc = "done" /\ calls[d].amount > 0
    /\ SubjectOf(calls[c].user) = SubjectOf(calls[d].user)
    /\ Len(payments) = 1

(* --------------------------- submit / parent claims -------------------- *)
\* C17: a ParentDecide call (with a well-formed decision, by a linked parent)
\* applies its transition only to a PendingParent request of the parent's
\* student; otherwise it changes no request and is answered 404 when no
\* request has the id it names, 403 when the request belongs to another
\* student, and 409 when it is the parent's student's request but no longer
\* PendingParent.
C17_ParentFailureClassified ==
  [][ /\ \A u \in ParentUsers, id \in Targets, r \in Reasons,
           s \in {"Approved", "Rejected"} :
           (StartParentDecide(u, id, s, r) /\ AnsweredOnArrival) =>
             /\ leaves' = leaves
             /\ (ParentStudent(u) # NoVal /\ id \notin LeaveIds)
                  => calls'[Len(calls')].result = 404
      /\ \A c \in CallIds :
        LET k == calls[c]
            own == k.id \in LeaveIds /\ leaves[k.id].studentId = ParentStudent(k.user)
        IN /\ (k.op = "parent" /\ k.pc = "update" /\ calls'[c].pc # "update")
                => IF own /\ leaves[k.id].status = "PendingParent"
                     THEN calls'[c].result = 200
                     ELSE calls'[c].pc = "lookup" /\ leaves' = leaves
           /\ (k.op = "parent" /\ k.pc = "lookup" /\ calls'[c].pc # "lookup")
                => /\ leaves' = leaves
                   /\ calls'[c].pc = "done"
                   /\ k.id \notin LeaveIds => calls'[c].result = 404
                   /\ (k.id \in LeaveIds /\ ~own) => calls'[c].result = 403
                   /\ own => /\ calls'[c].result = 409
                             /\ leaves[k.id].status # "PendingParent" ]_vars

\* The outcome of the body tests of a Submit that arrives in this step.
SubmitRejectedIff(rejected(_, _, _, _)) ==
  \A u \in StudentUsers, r \in SubmitReasons, t \in SubmitTypes,
     o \in Dates, i \in Dates :
    StartSubmit(u, r, t, o, i) =>
      LET k == calls'[Len(calls')]
      IN /\ (k.pc = "done" /\ k.result = 400) <=> rejected(r, t, o, i)
         /\ k.pc # "done" => (k.pc = "create" /\ k.outDate = o /\ k.inDate = i)

Missing(r, t, o, i) == r = NoVal \/ t = NoVal \/ o = NoDate \/ i = NoDate

InPrecedesOut(r, t, o, i) == Missing(r, t, o, i) \/ i < o

InNotAfterOut(r, t, o, i) == Missing(r, t, o, i) \/ i <= o

\* C18 (as stated): Submit is answered ValidationError exactly when a field
\* is missing or scheduled-in precedes scheduled-out, a request with
\* scheduled-in equal to scheduled-out is accepted, and every stored request
\* has scheduled-in >= scheduled-out.
C18_EqualDatesAccepted ==
  /\ [](\A l \in LeaveIds : leaves[l].inDate >= leaves[l].outDate)
  /\ [][SubmitRejectedIff(InPrecedesOut)]_vars

\* C18 (amended): Submit is answered ValidationError exactly when a field is
\* missing or scheduled-in is not later than scheduled-out; an accepted
\* request is stored with its dates, and every stored request has
\* scheduled-in > scheduled-out.
C18_SubmitNeedsInAfterOut ==
  /\ [](\A l \in LeaveIds : leaves[l].inDate > leaves[l].outDate)
  /\ [][SubmitRejectedIff(InNotAfterOut)]_vars
  /\ [][ \A c \in CallIds :
           (calls[c].op = "submit" /\ calls[c].pc = "create" /\ calls'[c].pc = "done")
             => /\ calls'[c].result = 201
                /\ leaves'[Len(leaves')].outDate = calls[c].outDate
                /\ leaves'[Len(leaves')].inDate = calls[c].inDate ]_vars

\* One Submit was answered 400 and stored nothing, another was accepted and
\* its request is stored with scheduled-in after scheduled-out.
C18_Witness ==
  \E c, d \in CallIds :
    /\ calls[c].op = "submit" /\ calls[c].result = 400 /\ calls[c].id = BogusId
    /\ calls[d].op = "submit" /\ calls[d].result = 201
    /\ leaves[calls[d].id].inDate > leaves[calls[d].id].outDate
    /\ Len(leaves) = 1

\* C19: the step that completes a Submit with 201 appends exactly one request
\* of the calling student with status PendingParent, parent decision Pending,
\* no warden decision fields and the single history entry
\* {PendingParent, student}, changes no stored request, and requests are
\* created by no other step.
C19_SubmitCreatesOnePendingParent ==
  [][ /\ \A c \in CallIds :
           (calls[c].op = "submit" /\ calls[c].pc = "create" /\ calls'[c].result = 201)
             => /\ Len(leaves') = Len(leaves) + 1
                /\ \A l \in LeaveIds : leaves'[l] = leaves[l]
                /\ calls'[c].id = Len(leaves')
                /\ LET new == leaves'[Len(leaves')]
                   IN /\ new.studentId = StudentOfUser(calls[c].user)
                      /\ new.status = "PendingParent"
                      /\ new.parentApprovalStatus = "Pending"
                      /\ new.approvedBy = NoVal
                      /\ new.approvedAt = NoVal
                      /\ new.rejectionReason = NoVal
                      /\ Len(new.statusHistory) = 1
                      /\ new.statusHistory[1].status = "PendingParent"
                      /\ new.statusHistory[1].role = "student"
      /\ Len(leaves') # Len(leaves)
           => \E c \in CallIds :
                /\ calls[c].op = "submit" /\ calls[c].pc = "create"
                /\ calls'[c].result = 201 ]_vars

\* A second Submit completed while the first student's request was already
\* decided by the parent; the new request is PendingParent.
C19_Witness ==
  /\ Len(leaves) = 2
  /\ leaves[1].status \in {"ApprovedByParent", "RejectedByParent"}
  /\ leaves[2].status = "PendingParent"
  /\ Len(leaves[2].statusHistory) = 1
  /\ \E c \in CallIds : calls[c].op = "submit" /\ calls[c].id = 2 /\ calls[c].result = 201

(* --------------------------- entry / exit claims ----------------------- *)
\* The most recently created log of the student (by creation time) in the
\* stored collection (BogusId when the student has none).
NewestLogOf(student) ==
  LET own == { i \in LogIds : logs[i].studentId = student }
  IN IF own = {} THEN BogusId
     ELSE CHOOSE i \in own : \A j \in own : logs[i].createdAt >= logs[j].createdAt

\* The step in which a MarkEntry / MarkExit call arrives with a target that
\* resolves to a student, and reads that student's last log.
EntryExitArrives(op) ==
  /\ Len(calls') = Len(calls) + 1
  /\ calls'[Len(calls')].op = op
  /\ calls'[Len(calls')].error # "target"

\* C14: no student has two logs with status IN.
C14_AtMostOneOpenLog ==
  \A st \in Subjects :
    Cardinality({ i \in LogIds : logs[i].studentId = st /\ logs[i].status = "IN" }) <= 1

\* C15: MarkEntry is answered Conflict (400, already IN) and creates no log
\* when the student's newest log is IN, and otherwise goes on to create a
\* log and answer 201; MarkExit is answered Conflict (400, not IN) and changes
\* no log when the student has no log or the newest is OUT, and otherwise
\* goes on to save that newest log and answer 200.
C15_EntryExitConflicts ==
  [][ /\ EntryExitArrives("entry") =>
           LET k == calls'[Len(calls')]
               last == NewestLogOf(k.target)
           IN /\ logs' = logs
              /\ IF last # BogusId /\ logs[last].status = "IN"
                   THEN k.pc = "done" /\ k.result = 400 /\ k.error = "alreadyIN"
                   ELSE k.pc = "create"
      /\ EntryExitArrives("exit") =>
           LET k == calls'[Len(calls')]
               last == NewestLogOf(k.target)
           IN /\ logs' = logs
              /\ IF last = BogusId \/ logs[last].status = "OUT"
                   THEN k.pc = "done" /\ k.result = 400 /\ k.error = "notIN"
                   ELSE k.pc = "save" /\ k.id = last
      /\ \A c \in CallIds :
           /\ (calls[c].op = "entry" /\ calls[c].pc = "create" /\ calls'[c].pc # "create")
                => /\ calls'[c].pc = "done" /\ calls'[c].result = 201
                   /\ Len(logs') = Len(logs) + 1
           /\ (calls[c].op = "exit" /\ calls[c].pc = "save" /\ calls'[c].pc # "save")
                => /\ calls'[c].pc = "done" /\ calls'[c].result = 200
                   /\ logs'[calls[c].id].status = "OUT" ]_vars

\* A MarkEntry answered Conflict for a student whose log is IN, and a
\* MarkExit answered Conflict for a student without any log.
C15_Witness ==
  \E c, d \in CallIds :
    /\ calls[c].op = "entry" /\ calls[c].result = 400 /\ calls[c].error = "alreadyIN"
    /\ logs[calls[c].id].status = "IN" /\ Len(logs) = 1
    /\ calls[d].op = "exit" /\ calls[d].result = 400 /\ calls[d].error = "notIN"
    /\ NewestLogOf(calls[d].target) = BogusId

\* C16: a MarkEntry / MarkExit call that created or changed a log was made by
\* a warden or by a student for the student's own subject, never by a parent.
C16_OnlyStudentSelfOrWarden ==
  \A c \in CallIds :
    (calls[c].op \in {"entry", "exit"} /\ calls[c].result \in {200, 201})
      => /\ calls[c].user \notin ParentUsers
         /\ calls[c].user \in StudentUsers
              => calls[c].target = StudentOfUser(calls[c].user)

(* --------------------------- fee claims -------------------------------- *)
\* C11: a Settle whose body amount is not a positive number (zero, negative,
\* NaN, a string, absent) is answered 400 at once, whatever fees the subject
\* has, and changes no fee, creates no payment and draws no receipt number.
C11_SettleRejectsBadAmount ==
  [][ \A u \in Payers, a \in SettleBodies,
         t \in TypedTransactionIds \cup {NoTransactionId} :
        (SettleFind(u, a, "UPI", t) /\ ~(a.type = "number" /\ ~a.nan /\ a.value > 0))
          => LET k == calls'[Len(calls')]
             IN /\ k.pc = "done" /\ k.result = 400 /\ k.batch = {}
                /\ fees' = fees /\ payments' = payments /\ receipts' = receipts ]_vars

\* A Settle answered 400 without a numeric amount while the caller's subject
\* has a Pending fee, which is still Pending, and no payment exists.
C11_Witness ==
  \E c \in CallIds :
    /\ calls[c].op = "settle" /\ calls[c].result = 400
    /\ calls[c].amount = NoAmount /\ calls[c].batch = {}
    /\ \E i \in FeeIds : /\ fees[i].studentId = SubjectOf(calls[c].user)
                         /\ fees[i].status = "Pending"
    /\ payments = << >>

\* C12: every fee with status Paid has its paid timestamp and its receipt
\* number set.
C12_PaidHasTimestampAndReceipt ==
  \A i \in FeeIds :
    fees[i].status = "Paid"
      => fees[i].paidAt # NoTime /\ fees[i].receiptNumber # NoReceipt

\* C13: a payment is created only by a Settle that answers 200, with the sum
\* of the amounts of the fees that Settle loaded as Pending; and every fee a
\* Settle's save writes was still Pending and has the amount that was counted.
C13_PaymentEqualsSettledFees ==
  [][ /\ Len(payments') # Len(payments)
           => \E c \in CallIds :
                /\ calls[c].op = "settle" /\ calls[c].pc = "payment"
                /\ calls'[c].result = 200
                /\ Len(payments') = Len(payments) + 1
                /\ payments'[Len(payments')].amount
                     = SumAmounts(calls[c].snap, calls[c].batch)
      /\ \A c \in CallIds :
           (calls[c].op = "settle" /\ calls[c].pc = "saving")
             => \A i \in calls[c].todo :
                  ((calls'[c].pc = "saving" => i \notin calls'[c].todo) /\ fees'[i] # fees[i])
                    => /\ fees[i].status = "Pending"
                       /\ fees'[i].status = "Paid"
                       /\ fees'[i].amount = calls[c].snap[i].amount ]_vars

\* C20: a fee is created Pending, and a Paid fee stays Paid as long as it is
\* stored.
C20_StatusOnlyPendingToPaid ==
  [][ /\ \A i \in FeeIds :
           (fees[i].status = "Paid" /\ fees'[i] # DeletedFee)
             => fees'[i].status = "Paid"
      /\ \A i \in (1..Len(fees')) \ FeeSlots : fees'[i].status = "Pending" ]_vars

(* --------------------------- decision effect claims -------------------- *)
\* C21: the step in which a ParentDecide is answered 200 finds the request
\* PendingParent with one history entry and leaves it ApprovedByParent (for
\* Approved) or RejectedByParent (for Rejected), with the parent decision, the
\* parent's identity and the decision time set, the rejection reason kept
\* only for Rejected, and one history entry with role parent appended (two
\* entries in all); and a WardenDecide that finds a request the parent
\* rejected changes nothing and is answered 409.
C21_ParentDecisionEffects ==
  [][ \A c \in CallIds :
        LET k == calls[c] IN
        /\ (k.op = "parent" /\ k.pc = "update" /\ calls'[c].result = 200)
             => LET old == leaves[k.id]
                    new == leaves'[k.id]
                    rejected == k.status = "Rejected"
                IN /\ old.status = "PendingParent"
                   /\ new.status = (IF rejected THEN "RejectedByParent"
                                                ELSE "ApprovedByParent")
                   /\ new.parentApprovalStatus = k.status
                   /\ new.parentApprovedBy = k.user
                   /\ new.parentApprovedAt # NoVal
                   /\ new.parentRejectionReason = (IF rejected THEN k.reason ELSE NoVal)
                   /\ Len(old.statusHistory) = 1
                   /\ Len(new.statusHistory) = 2
                   /\ new.statusHistory[1] = old.statusHistory[1]
                   /\ new.statusHistory[2].role = "parent"
                   /\ new.statusHistory[2].status = new.status
                   /\ new.statusHistory[2].updatedBy = k.user
                   /\ \A l \in LeaveIds \ {k.id} : leaves'[l] = leaves[l]
        /\ (k.op = "warden" /\ k.pc \in {"update", "lookup"} /\ k.id \in LeaveIds
            /\ leaves[k.id].parentApprovalStatus = "Rejected" /\ calls'[c] # k)
             => /\ leaves' = leaves
                /\ IF k.pc = "update" THEN calls'[c].pc = "lookup"
                                      ELSE calls'[c].result = 409 ]_vars

\* A parent rejected a request with a reason, and a warden's decision on it
\* was answered 409: the request is RejectedByParent with two history entries.
C21_Witness ==
  \E c, d \in CallIds :
    /\ calls[c].op = "parent" /\ calls[c].result = 200 /\ calls[c].status = "Rejected"
    /\ calls[d].op = "warden" /\ calls[d].result = 409 /\ calls[d].id = calls[c].id
    /\ calls[d].status = "Approved"
    /\ leaves[calls[c].id].status = "RejectedByParent"
    /\ leaves[calls[c].id].parentRejectionReason = "not convenient"
    /\ Len(leaves[calls[c].id].statusHistory) = 2

\* C22: the step in which a WardenDecide is answered 200 finds the request
\* ApprovedByParent with the two history entries of the student and the
\* parent, and leaves it Approved with approvedAt set (for Approved) or
\* Rejected with approvedAt unset and the rejection reason recorded (for
\* Rejected), approvedBy the deciding warden, and a third history entry with
\* role warden.
C22_WardenDecisionEffects ==
  [][ \A c \in CallIds :
        LET k == calls[c] IN
        (k.op = "warden" /\ k.pc = "update" /\ calls'[c].result = 200)
          => LET old == leaves[k.id]
                 new == leaves'[k.id]
             IN /\ old.status = "ApprovedByParent"
                /\ new.status = k.status
                /\ new.status \in {"Approved", "Rejected"}
                /\ new.approvedBy = k.user
                /\ (k.status = "Approved")
                     => new.approvedAt # NoVal /\ new.rejectionReason = NoVal
                /\ (k.status = "Rejected")
                     => new.approvedAt = NoVal /\ new.rejectionReason = k.reason
                /\ Len(new.statusHistory) = 3
                /\ new.statusHistory[1] = old.statusHistory[1]
                /\ new.statusHistory[2] = old.statusHistory[2]
                /\ new.statusHistory[1].role = "student"
                /\ new.statusHistory[2].role = "parent"
                /\ new.statusHistory[3].role = "warden"
                /\ new.statusHistory[3].status = k.status ]_vars

\* Submit, ParentDecide(Approved), WardenDecide(Rejected with a reason) have
\* run: the request is Rejected, approvedAt is unset and the reason recorded.
C22_Witness ==
  \E c \in CallIds :
    /\ calls[c].op = "warden" /\ calls[c].result = 200 /\ calls[c].status = "Rejected"
    /\ leaves[calls[c].id].status = "Rejected"
    /\ leaves[calls[c].id].approvedBy = calls[c].user
    /\ leaves[calls[c].id].approvedAt = NoVal
    /\ leaves[calls[c].id].rejectionReason = "not convenient"
    /\ Len(leaves[calls[c].id].statusHistory) = 3

\* C29: the parent decision field agrees with the status: PendingParent with
\* Pending, RejectedByParent with Rejected, ApprovedByParent / Approved /
\* Rejected with Approved, and Cancelled with Pending and no warden decision.
C29_ParentDecisionAgreesWithStatus ==
  \A l \in LeaveIds :
    LET d == leaves[l] IN
    /\ d.status = "PendingParent" => d.parentApprovalStatus = "Pending"
    /\ d.status = "RejectedByParent" => d.parentApprovalStatus = "Rejected"
    /\ d.status \in {"ApprovedByParent", "Approved", "Rejected"}
         => d.parentApprovalStatus = "Approved"
    /\ d.status = "Cancelled"
         => d.parentApprovalStatus = "Pending" /\ d.approvedBy = NoVal

(* --------------------------- log effect claims ------------------------- *)
\* C23: the step in which a MarkExit is answered 200 creates no log: it finds
\* the student's most recent log with status IN and leaves it OUT with the
\* out-timestamp set and the method of this exit, every other log and the
\* number of logs unchanged; the step in which a MarkEntry is answered 201
\* appends one log with status IN and changes no stored log; no step removes
\* a log.
C23_ExitMutatesEntryCreates ==
  [][ /\ Len(logs') >= Len(logs)
      /\ \A c \in CallIds :
           LET k == calls[c] IN
           /\ (k.op = "exit" /\ k.pc = "save" /\ calls'[c].result = 200)
                => /\ Len(logs') = Len(logs)
                   /\ \A j \in LogIds \ {k.id} : logs'[j] = logs[j]
                   /\ k.id = NewestLogOf(k.target)
                   /\ logs[k.id].status = "IN"
                   /\ logs'[k.id].status = "OUT"
                   /\ logs'[k.id].outTime # NoTime
                   /\ logs'[k.id].method = k.method
                   /\ logs'[k.id].studentId = logs[k.id].studentId
                   /\ logs'[k.id].inTime = logs[k.id].inTime
                   /\ logs'[k.id].createdAt = logs[k.id].createdAt
           /\ (k.op = "entry" /\ k.pc = "create" /\ calls'[c].result = 201)
                => /\ Len(logs') = Len(logs) + 1
                   /\ \A j \in LogIds : logs'[j] = logs[j]
                   /\ logs'[Len(logs')].status = "IN"
                   /\ logs'[Len(logs')].studentId = k.target ]_vars

\* C28: no log is the subject of two MarkExit calls that were both answered
\* 200.
C28_OneExitPerOpenLog ==
  \A c, d \in CallIds :
    (c # d /\ calls[c].op = "exit" /\ calls[d].op = "exit"
     /\ calls[c].result = 200 /\ calls[d].result = 200)
      => calls[c].id # calls[d].id

(* --------------------------- settlement failure claims ----------------- *)
\* C24: when the Payment write of a Settle fails (its method is not one the
\* payment schema accepts), the step that answers the call answers 200 with
\* the receipt number, changes no fee and creates no payment; the answered
\* call has stored no payment, and no stored payment has that method.
C24_PaymentFailureNotEscalated ==
  /\ [][ \A c \in CallIds :
           (calls[c].op = "settle" /\ calls[c].pc = "payment"
            /\ calls[c].method = "Wallet" /\ calls'[c].pc # "payment")
             => /\ calls'[c].pc = "done" /\ calls'[c].result = 200
                /\ calls'[c].receipt = calls[c].receipt
                /\ calls'[c].receipt # NoReceipt
                /\ fees' = fees
                /\ payments' = payments ]_vars
  /\ [](/\ \A c \in CallIds :
             (calls[c].op = "settle" /\ calls[c].method = "Wallet"
              /\ calls[c].pc = "done")
               => calls[c].payment = NoPayment
        /\ \A p \in 1..Len(payments) : payments[p].method # "Wallet")

\* A Settle paid by wallet was answered 200 with a receipt number, its fee is
\* Paid with that receipt number, and there is no payment.
C24_Witness ==
  \E c \in CallIds :
    /\ calls[c].op = "settle" /\ calls[c].pc = "done" /\ calls[c].result = 200
    /\ calls[c].method = "Wallet" /\ calls[c].receipt # NoReceipt
    /\ calls[c].batch # {}
    /\ \A i \in calls[c].batch :
         fees[i].status = "Paid" /\ fees[i].receiptNumber = calls[c].receipt
    /\ payments = << >>

(* --------------------------- warden payment claims --------------------- *)
\* C26: the step in which a markFeePaid is answered 200 leaves the addressed
\* fee Paid with this call's timestamp, payer role warden and the warden's
\* identity, its receipt number the supplied one if one was supplied and
\* otherwise as it was, its amount as it was, every other fee and the payments
\* unchanged; a markFeePaid for an unknown id is answered 404 and changes
\* nothing.
C26_MarkPaidEffects ==
  [][ /\ \A c \in CallIds :
           LET k == calls[c] IN
           (k.op = "markFeePaid" /\ k.pc = "save" /\ calls'[c].result = 200)
             => /\ fees'[k.id].status = "Paid"
                /\ fees'[k.id].paidAt = c
                /\ fees'[k.id].paidBy = "warden"
                /\ fees'[k.id].paidByUserId = k.user
                /\ fees'[k.id].receiptNumber =
                     (IF k.want.receiptNumber # k.snap.receiptNumber
                        THEN k.want.receiptNumber ELSE fees[k.id].receiptNumber)
                /\ fees'[k.id].amount = fees[k.id].amount
                /\ \A j \in FeeIds \ {k.id} : fees'[j] = fees[j]
                /\ Len(fees') = Len(fees)
                /\ payments' = payments
      /\ \A u \in WardenUsers, id \in FeeTargets,
            r \in TypedReceipts \cup {NoReceipt} :
           (MarkFeePaidLoad(u, id, r) /\ id \notin FeeIds)
             => /\ calls'[Len(calls')].result = 404
                /\ fees' = fees /\ payments' = payments ]_vars

\* C30: a fee that is Paid and carries a paid timestamp keeps its paid
\* timestamp, payer role and payer identity in every step that leaves it
\* stored.
C30_PaymentEvidenceStable ==
  [][ \A i \in FeeIds :
        (fees[i].status = "Paid" /\ fees[i].paidAt # NoTime
         /\ fees'[i] # DeletedFee)
          => /\ fees'[i].paidAt = fees[i].paidAt
             /\ fees'[i].paidBy = fees[i].paidBy
             /\ fees'[i].paidByUserId = fees[i].paidByUserId ]_vars

(* --------------------------- concurrent settlement claims -------------- *)
\* C27: no two payments were created for overlapping sets of fees, and for
\* every subject the sum of the payments' amounts is at most the sum of the
\* amounts of the subject's Paid fees.
C27_OnePaymentPerBatch ==
  /\ \A c, d \in CallIds :
       (c # d /\ calls[c].op = "settle" /\ calls[d].op = "settle"
        /\ calls[c].pc = "done" /\ calls[d].pc = "done"
        /\ calls[c].receipt # NoReceipt /\ calls[d].receipt # NoReceipt)
         => calls[c].batch \cap calls[d].batch = {}
  /\ \A st \in Subjects :
       SumAmounts(payments, { p \in 1..Len(payments) : payments[p].studentId = st })
         <= SumAmounts(fees, { i \in FeeIds : fees[i].studentId = st
                                              /\ fees[i].status = "Paid" })

(* --------------------------- partial settlement claims ----------------- *)
\* A save of Settle call c on fee i that cannot be persisted: the fee is
\* gone, or the receipt number it would set is held by another stored fee.
\* (Stated on the stored fees, for the step in which the save is served.)
\*
\* NoRollbackOnFailure, below: what holds of every Settle whose save of a fee
\* is rejected.  A save that cannot be persisted changes no fee and no
\* payment (nothing is rolled back, the fee stays as it is) and makes the
\* call one that is answered 500, every other save persists its own fee
\* only; a Paid fee stays Paid; a call that has failed stays failed, ends 500
\* and never reaches the payment; and payments grow only by a call that is
\* answered 200.
SaveRefused(c, i) ==
  \/ fees[i] = DeletedFee
  \/ /\ calls[c].want[i].receiptNumber # calls[c].snap[i].receiptNumber
     /\ \E j \in FeeIds \ {i} :
          fees[j].receiptNumber = calls[c].want[i].receiptNumber

NoRollbackOnFailure ==
  /\ \A i \in FeeIds :
       (fees[i].status = "Paid" /\ fees'[i] # DeletedFee)
         => fees'[i].status = "Paid"
  /\ \A c \in CallIds, i \in FeeSlots :
       SettleSaveOne(c, i)
         => IF SaveRefused(c, i)
              THEN /\ fees' = fees /\ payments' = payments
                   /\ calls'[c].result = 500
                   /\ calls'[c].pc \in {"saving", "done"}
              ELSE /\ fees'[i].status = "Paid"
                   /\ \A j \in FeeSlots \ {i} : fees'[j] = fees[j]
  /\ \A c \in CallIds :
       LET k == calls[c] IN
       /\ (k.op = "settle" /\ k.pc = "saving" /\ k.result # 500
           /\ calls'[c].result = 500)
            => fees' = fees /\ payments' = payments
       /\ (k.op = "settle" /\ k.result = 500)
            => /\ calls'[c].result = 500
               /\ calls'[c].pc \in {"saving", "done"}
               /\ calls'[c] # k => payments' = payments
  /\ Len(payments') # Len(payments)
       => \E c \in CallIds : calls[c].pc = "payment" /\ calls'[c].result = 200

\* C25 (as stated): a failed save is not rolled back, the call is answered
\* ServerError without a payment, and once a save of the call has failed the
\* fees of the batch not yet saved stay as they are.
C25_RemainingStayPending ==
  [][ /\ NoRollbackOnFailure
      /\ \A c \in CallIds :
           (calls[c].op = "settle" /\ calls[c].pc = "saving"
            /\ calls[c].result = 500)
             => \A i \in calls[c].todo : fees'[i] = fees[i] ]_vars

\* C25 (amended): a failed save is not rolled back, the fees saved stay Paid,
\* the call is answered ServerError and no payment is created; the other
\* saves of the batch were issued with the failed one and still run.
C25_NoRollbackServerError ==
  [][NoRollbackOnFailure]_vars

\* A Settle was answered 500 without a payment; of its batch one fee is
\* Pending, one is Paid with the call's stamp, and the fee that had its own
\* receipt number is Paid by the call as well.
C25_Witness ==
  \E c \in CallIds :
    /\ calls[c].op = "settle" /\ calls[c].pc = "done" /\ calls[c].result = 500
    /\ payments = << >>
    /\ \E i, j, l \in calls[c].batch :
         /\ fees[i].status = "Paid" /\ fees[i].paidAt = c
         /\ fees[i].receiptNumber # <<"W", 1>>
         /\ fees[j].status = "Pending"
         /\ fees[l].status = "Paid" /\ fees[l].paidAt = c
         /\ fees[l].receiptNumber = <<"W", 1>>

(* --------------------------- specifications ---------------------------- *)
NextLeave ==
  \/ \E u \in StudentUsers : StartSubmit(u, "visit", "Other", 1, MaxDay)
  \/ \E c \in CallIds : SubmitCreate(c)
  \/ \E u \in ParentUsers, id \in Targets, s \in Decisions :
       \E r \in ReasonsWith(s) : StartParentDecide(u, id, s, r)
  \/ \E c \in CallIds : ParentFindOneAndUpdate(c)
  \/ \E c \in CallIds : ParentLookup(c)
  \/ \E u \in WardenUsers, id \in Targets, s \in Decisions :
       \E r \in ReasonsWith(s) : StartWardenDecide(u, id, s, r)
  \/ \E c \in CallIds : WardenFindOneAndUpdate(c)
  \/ \E c \in CallIds : WardenLookup(c)
  \/ \E u \in StudentUsers, id \in Targets : StartCancel(u, id)
  \/ \E c \in CallIds : CancelLoad(c)
  \/ \E c \in CallIds : CancelSaveStep(c)

SpecLeave == Init /\ [][NextLeave]_vars

\* createLeaveRequest alone, with every kind of body.
NextSubmit ==
  \/ \E u \in StudentUsers, r \in SubmitReasons, t \in SubmitTypes,
        o \in Dates, i \in Dates : StartSubmit(u, r, t, o, i)
  \/ \E c \in CallIds : SubmitCreate(c)

SpecSubmit == Init /\ [][NextSubmit]_vars

NextFee ==
  \/ \E u \in WardenUsers, st \in Subjects, a \in FeeAmounts, s \in FeeStatuses \ {"Pending"} :
       CreateFee(u, st, a, s)
  \/ \E u \in WardenUsers, id \in FeeTargets, a \in {NoAmount, 300},
        s \in FeeStatuses, r \in TypedReceipts \cup {NoReceipt} :
       UpdateFeeLoad(u, id, a, s, r)
  \/ \E u \in WardenUsers, id \in FeeTargets, r \in TypedReceipts \cup {NoReceipt} :
       MarkFeePaidLoad(u, id, r)
  \/ \E c \in CallIds : FeeSave(c)
  \/ \E u \in WardenUsers, id \in FeeTargets : DeleteFeeFind(u, id)
  \/ \E c \in CallIds : DeleteFeeRemove(c)
  \/ \E u \in Payers, a \in SettleAmounts, m \in Methods :
       \E t \in TransactionIdsWith(m) : SettleFind(u, Num(a), m, t)
  \/ \E c \in CallIds : \E i \in FeeSlots : SettleSaveOne(c, i)
  \/ \E c \in CallIds : SettlePayment(c)

SpecFee == Init /\ [][NextFee]_vars

\* payMyFees with every kind of body amount, over fees a warden creates.
NextSettle ==
  \/ \E u \in WardenUsers, st \in Subjects, a \in FeeAmounts, s \in FeeStatuses \ {"Pending"} :
       CreateFee(u, st, a, s)
  \/ \E u \in Payers, a \in SettleBodies,
        t \in TransactionIdsWith("UPI") : SettleFind(u, a, "UPI", t)
  \/ \E c \in CallIds, i \in FeeIds : SettleSaveOne(c, i)
  \/ \E c \in CallIds : SettlePayment(c)

SpecSettle == Init /\ [][NextSettle]_vars

\* A store a warden has filled for student S1: three Pending fees made by
\* createFee, the last of which got a receipt number typed in by updateFee
\* (the smallest store in which one save of a batch is rejected and another
\* is served after it).  The calls that filled it are over.
InitBatch ==
  /\ leaves = << >>
  /\ calls = << >>
  /\ fees = << NewFee("S1", 300, NoVal),
               NewFee("S1", 300, NoVal),
               [ NewFee("S1", 300, NoVal) EXCEPT !.receiptNumber = <<"W", 1>> ] >>
  /\ payments = << >>
  /\ receipts = 0
  /\ logs = << >>

\* Amounts that match the filled store's due before and after a failed
\* settlement.
BatchAmounts == {300, 900}

\* payMyFees by the student over the filled store.
NextBatch ==
  \/ \E a \in BatchAmounts : SettleFind("s1", Num(a), "UPI", NoTransactionId)
  \/ \E c \in CallIds, i \in FeeIds : SettleSaveOne(c, i)
  \/ \E c \in CallIds : SettlePayment(c)

SpecBatch == InitBatch /\ [][NextBatch]_vars

NextEntry ==
  \/ \E u \in EntryCallers, st \in StudentIdInputs, m \in EntryMethods :
       EntryFind(u, st, m)
  \/ \E c \in CallIds : EntryCreate(c)
  \/ \E u \in EntryCallers, st \in StudentIdInputs, m \in EntryMethods :
       ExitFind(u, st, m)
  \/ \E c \in CallIds : ExitSave(c)

SpecEntry == Init /\ [][NextEntry]_vars

Next == NextLeave \/ NextSubmit \/ NextFee \/ NextSettle \/ NextEntry

Spec == Init /\ [][Next]_vars
====
